---- MODULE Spec2Model ----
(***************************************************************************)
(* The edit-submission / polling state machine of the AIImageEditor        *)
(* component (src/app/editor-client.tsx).                                  *)
(*                                                                         *)
(* Each action is one synchronous segment of a handler or of an async      *)
(* continuation (the code between two awaits, a timer callback, an image   *)
(* or file-reader callback), together with the React commit that follows   *)
(* it: the batched state updates and the run of the [editId] effect        *)
(* (cleanup of the previous effect instance, then the new effect body).    *)
(* Values a continuation reads from its closure (currentView,              *)
(* generatedVariants, currentEditUuid, editId as they were when the        *)
(* handler was invoked) are kept in the record of the submission or of     *)
(* the polling loop.                                                       *)
(***************************************************************************)
EXTENDS Integers, Sequences, FiniteSets, TLC

\* ---------------------------------------------------------------- bounds
MaxSubmits == 2      \* calls of handleSubmitPrompt that pass the submitting guard
MaxRejected == 1     \* calls of handleSubmitPrompt made while isSubmittingRef is set
TickMs == 50         \* the step of the clock, in ms
MaxTicks == 2        \* steps of the clock
MaxJobs == 2         \* calls of mockEditImage made directly through the mock fetch

\* ------------------------------------------------------------- constants
NULL == 0                \* null (no image, no edit id)
MaxAttempts == 3         \* while (attempt < 3)
BackoffBaseMs == 1500    \* 1500 * Math.pow(2, attempt)
UploadErrorMs == 8000    \* setTimeout(..., 8000)
EditErrorMs == 5000      \* setTimeout(..., 5000)
navigationThrottle == 100
Epoch == 1000            \* Date.now() when the page is loaded
ProgressStep == 25       \* Math.random() * 25; job.progress / 25
FullProgress == 100      \* job.progress = 100

Subs == 1..MaxSubmits            \* submissions; the server's edit_id of submission k is k
UploadImgs == {1}                \* the user's file, as read by readAsDataURL (a data: URL)
ResultUrl(h) == 100 + h          \* pollData.edited_image_url of edit h (a server URL)
Prompts == {"p1"}                \* non-blank prompt texts the user types

Max(a, b) == IF a >= b THEN a ELSE b

RECURSIVE Pow2(_)
Pow2(n) == IF n = 0 THEN 1 ELSE 2 * Pow2(n - 1)

\* ------------------------------------------------- mock API (src/lib/mock-api.ts)
\* Math.random(), in hundredths: 0 and 0.96.
Randoms == {0, 96}
\* The five files of mockImages, as image ids.
mockImages == <<201, 202, 203, 204, 205>>
stages == <<"initializing", "analyzing", "processing", "finalizing">>

\* The values Date.now() takes.
Times == {Epoch + i * TickMs : i \in 0..MaxTicks}
\* `mock-${Date.now()}-${Math.random().toString(36).substr(2, 9)}`: the time and the
\* digits of the random value, side by side.
MockId(t, r) == t * 100 + r
MockIds == {MockId(t, r) : t \in Times, r \in Randoms}

\* The entry startMockProcessing stores (prompt, stages and startTime are never read
\* back and are left out).
NewJob(r) ==
  [progress |-> 0, isComplete |-> FALSE,
   resultImage |-> mockImages[(r * Len(mockImages)) \div 100 + 1]]

\* job.progress += Math.random() * 25; if (job.progress >= 100) { ... }
Advance(job, r) ==
  LET p == job.progress + (r * ProgressStep) \div 100
  IN  IF p >= FullProgress
      THEN [job EXCEPT !.progress = FullProgress, !.isComplete = TRUE]
      ELSE [job EXCEPT !.progress = p]

\* job.stages[Math.floor(job.progress / 25)]; an index past the end of the array gives
\* undefined, which the template literal prints as "undefined".
StageAt(p) ==
  LET i == p \div ProgressStep
  IN  IF i + 1 \in 1..Len(stages) THEN stages[i + 1] ELSE "undefined"
\* `Mock ${stage}...`
MockMessage(stage) ==
  CASE stage = "initializing" -> "Mock initializing..."
    [] stage = "analyzing" -> "Mock analyzing..."
    [] stage = "processing" -> "Mock processing..."
    [] stage = "finalizing" -> "Mock finalizing..."
    [] OTHER -> "Mock undefined..."

JobNotFoundStillProcessing ==
  [status |-> "processing", message |-> "Mock job not found", is_error |-> FALSE,
   is_complete |-> FALSE]
\* The three bodies mockEditStatus returns.
JobNotFound ==
  [status |-> "failed", message |-> "Mock job not found", is_error |-> TRUE,
   is_complete |-> FALSE]
CompletedBody(job) ==
  [status |-> "completed", processing_stage |-> "completed",
   message |-> "Mock processing completed successfully",
   progress_percent |-> FullProgress, is_complete |-> TRUE, is_error |-> FALSE,
   edited_image_url |-> job.resultImage]
ProcessingBody(job) ==
  [status |-> "processing", processing_stage |-> StageAt(job.progress),
   message |-> MockMessage(StageAt(job.progress)),
   progress_percent |-> IF job.progress <= FullProgress THEN job.progress ELSE FullProgress,
   is_complete |-> job.isComplete, is_error |-> FALSE]

\* A URL as url.split('/') sees it: the segments before the last one (each of them is
\* followed by a slash) and the last segment, NULL when it is empty.
ApiBase == <<"http:", "", "api.test">>
EditImageUrl == [dirs |-> ApiBase \o <<"edit-image">>, last |-> NULL]
EditStatusUrl(id) == [dirs |-> ApiBase \o <<"edit">>, last |-> id]
HealthUrl == [dirs |-> ApiBase \o <<"health">>, last |-> NULL]
BareEditUrl(id) == [dirs |-> <<"edit">>, last |-> id]      \* "edit/<id>", no slash in front
Urls ==
  {EditImageUrl, HealthUrl, EditStatusUrl(NULL)}
    \cup {EditStatusUrl(id) : id \in MockIds} \cup {BareEditUrl(MockId(Epoch, 0))}
\* url.includes('/<seg>/'): seg is a segment with a slash on both sides.
Includes(url, seg) == \E i \in 2..Len(url.dirs) : url.dirs[i] = seg
Methods == {"GET", "POST"}
\* process.env.NEXT_PUBLIC_USE_MOCK_API
EnvValues == {"true", "false", "undefined"}

NothingReported == [progress |-> 0, completed |-> FALSE, url |-> NULL]
NoFetch ==
  [env |-> "undefined", url |-> HealthUrl, method |-> "GET", via |-> "none", code |-> NULL]

\* ------------------------------------------------------- processingStatus
NullStatus == [status |-> "null", message |-> "", is_error |-> FALSE]
InitStatus ==
  [status |-> "processing", message |-> "Starting image processing...", is_error |-> FALSE]
FailedStatusStillProcessing(msg) == [status |-> "processing", message |-> msg, is_error |-> FALSE]
FailedStatus(msg) == [status |-> "failed", message |-> msg, is_error |-> TRUE]

UploadFallbackMsg == "Upload failed. Please try again."
EditFallbackMsg == "Image editing failed. Please try again."
PollFallbackMsg == "Processing image..."

\* ------------------------------------------------------------------ state
VARIABLES
  currentView,        \* "home" | "output"
  uploadedImage,
  currentVariant,
  currentVariantRef,
  isProcessing,
  prompt,
  generatedVariants,  \* the chain
  editId,             \* the handle being polled
  currentEditUuid,
  processingStatus,
  promptHistory,      \* sequence; "" is an unset slot
  isSubmittingRef,
  shouldPollRef,
  subs,               \* per call of handleSubmitPrompt: position and closure values
  polls,              \* per handle: position of its polling loop
  timers,             \* pending status-clearing timeouts, by delay
  readers,            \* FileReader loads in progress
  nSubs,              \* calls of handleSubmitPrompt that passed the submitting guard
  nRejected,          \* history: calls of handleSubmitPrompt made while isSubmittingRef
                      \* was set
  clean,              \* history: the chain was created by an upload and every
                      \* submission since then has succeeded so far
  origImg,            \* history: the image of the upload that created the chain
  nDone,              \* history: edits completed since that upload
  now,                \* Date.now()
  lastNavigationTime, \* of the keydown listener in place
  lastStepTime,       \* history: when the current index was last changed by navigation;
                      \* 0 before the first such step
  processingJobs,     \* MockAPIService: the Map of jobs, by edit id
  completionTimers,   \* MockAPIService: pending completion timeouts, by edit id
  jobOf,              \* the edit_id the mock returned to submission k (NULL: none)
  issued,             \* history: how many times mockEditImage returned each edit id
  orphanTimers,       \* history: per edit id, the pending completion timeouts that
                      \* were set before the last cleanupJob of that id
  reported,           \* history: per edit id, what mockEditStatus has returned so far
  lastFetch           \* history: the last call of the mock fetch and its outcome

vars == <<currentView, uploadedImage, currentVariant, currentVariantRef, isProcessing,
          prompt, generatedVariants, editId, currentEditUuid, processingStatus,
          promptHistory, isSubmittingRef, shouldPollRef, subs, polls, timers, readers,
          nSubs, nRejected, clean, origImg, nDone, now, lastNavigationTime, lastStepTime,
          processingJobs, completionTimers, jobOf, issued, orphanTimers, reported,
          lastFetch>>

session == <<currentView, uploadedImage, currentVariant, currentVariantRef, isProcessing,
             prompt, generatedVariants, editId, currentEditUuid, processingStatus,
             promptHistory, isSubmittingRef, shouldPollRef>>

\* A submission not yet made.
\* attempt, isChainEdit, parentUuid and image are the locals and closure values of the
\* call; nReq counts its fetches; waitMs is the delay of the wait in progress and hint
\* what the retry-after header of the throttled response asked for; lenBefore and
\* idxBefore (chain length and index when the call was made), lenAfter (chain length
\* once the placeholder was appended) and stale (resetEditor was called since) are
\* history.  A call that has ended keeps its phase only, and one that ended in the
\* upload-error block also what it was made from.
NoSub ==
  [phase |-> "unused", attempt |-> 0, nReq |-> 0, waitMs |-> 0,
   hint |-> 0,
   isChainEdit |-> FALSE, parentUuid |-> NULL, image |-> NULL,
   lenBefore |-> 0, idxBefore |-> 0, lenAfter |-> 0, stale |-> FALSE]
Ended(ph) == [NoSub EXCEPT !.phase = ph]
EndedInUploadError(rec) ==
  [Ended("uploadFailed") EXCEPT !.isChainEdit = rec.isChainEdit,
                                !.lenBefore = rec.lenBefore, !.idxBefore = rec.idxBefore]

\* phase: "none" (not started), "request" (fetch outstanding), "tick" (setTimeout(poll)
\* pending), "preload" (img.src set, onload pending), or how the loop ended.
\* isChainEdit, lenBefore, idxBefore and lenAfter are those of the submission; stale
\* (resetEditor was called since the loop started) is history; url is the newUrl of
\* the preload in progress; delay is that of the pending setTimeout(poll).
NoPoll ==
  [phase |-> "none", stale |-> FALSE, isChainEdit |-> FALSE, lenBefore |-> 0,
   idxBefore |-> 0, lenAfter |-> 0, url |-> NULL, delay |-> 0]
PollEndedReschedules(ph) == [NoPoll EXCEPT !.phase = "tick"]
PollEnded(ph) == [NoPoll EXCEPT !.phase = ph]
PollIntervalMs == 2000
RescheduleGivesUp(rec) == [NoPoll EXCEPT !.phase = "stopped"]
Reschedule(rec) == [rec EXCEPT !.phase = "tick", !.delay = PollIntervalMs]    \* setTimeout(poll, 2000)

SubInFlight(k) == subs[k].phase \in {"encoding", "request", "waiting"}
PollActive(h) == polls[h].phase \in {"request", "tick", "preload"}

Init ==
  /\ currentView = "home"
  /\ uploadedImage = NULL
  /\ currentVariant = 0
  /\ currentVariantRef = 0
  /\ isProcessing = FALSE
  /\ prompt = ""
  /\ generatedVariants = <<>>
  /\ editId = NULL
  /\ currentEditUuid = NULL
  /\ processingStatus = NullStatus
  /\ promptHistory = <<>>
  /\ isSubmittingRef = FALSE
  /\ shouldPollRef = FALSE
  /\ subs = [k \in Subs |-> NoSub]
  /\ polls = [h \in Subs |-> NoPoll]
  /\ timers = [d \in {EditErrorMs, UploadErrorMs} |-> 0]
  /\ readers = {}
  /\ nSubs = 0
  /\ nRejected = 0
  /\ clean = FALSE
  /\ origImg = NULL
  /\ nDone = 0
  /\ now = Epoch
  /\ lastNavigationTime = 0
  /\ lastStepTime = 0
  /\ processingJobs = <<>>
  /\ completionTimers = [id \in MockIds |-> 0]
  /\ jobOf = [k \in Subs |-> NULL]
  /\ issued = [id \in MockIds |-> 0]
  /\ orphanTimers = [id \in MockIds |-> 0]
  /\ reported = [id \in MockIds |-> NothingReported]
  /\ lastFetch = NoFetch

\* ---------------------------------------------------------------- helpers
At(s, i) == IF i + 1 \in 1..Len(s) THEN s[i + 1] ELSE NULL      \* s[i], undefined out of range
SliceKeepsAll(s) == s
Slice(s) == IF Len(s) = 0 THEN s ELSE SubSeq(s, 1, Len(s) - 1)   \* prev.slice(0, -1)
ReplaceLastKeepsPlaceholder(s, v) == s
ReplaceLastAppends(s, v) == Append(s, v)
\* updated[updated.length - 1] = v : on an empty array this sets property "-1", not an entry
ReplaceLast(s, v) == IF Len(s) = 0 THEN s ELSE [s EXCEPT ![Len(s)] = v]
\* updated[i] = v on a copy of the array (the array grows, with unset slots, when i >= length)
SetSlot(s, i, v) ==
  [j \in 1..Max(Len(s), i + 1) |-> IF j = i + 1 THEN v ELSE IF j <= Len(s) THEN s[j] ELSE ""]
PromptAtNone(s, i) == ""
PromptAt(s, i) == IF i + 1 \in 1..Len(s) THEN s[i + 1] ELSE ""   \* promptHistory[i] || ""

IsDataUrl(img) == img \in UploadImgs                              \* src.startsWith("data:")

\* The [editId] effect at the commit that changes editId to newId: the cleanup of the
\* previous instance (shouldPollRef false, clearTimeout of its tick), then the body
\* (shouldPollRef true and a first poll() for a handle, shouldPollRef false for null).
\* ref and p are shouldPollRef and polls as the handler left them.
EffectRefStaysOn(newId, ref) == TRUE
EffectRef(newId, ref) == IF newId = editId THEN ref ELSE newId # NULL
EffectPolls(newId, p) ==
  IF newId = editId THEN p
  ELSE LET p1 == IF editId # NULL /\ p[editId].phase = "tick"
                 THEN [p EXCEPT ![editId] = PollEnded("cancelled")]
                 ELSE p
       IN IF newId # NULL THEN [p1 EXCEPT ![newId].phase = "request"] ELSE p1

MarkStaleSubs(s) ==
  [k \in Subs |-> IF s[k].phase \in {"encoding", "request", "waiting"}
                  THEN [s[k] EXCEPT !.stale = TRUE] ELSE s[k]]
MarkStalePolls(p) ==
  [h \in Subs |-> IF p[h].phase \in {"request", "tick", "preload"}
                  THEN [p[h] EXCEPT !.stale = TRUE] ELSE p[h]]

\* ------------------------------------------------------------ resetEditor
ResetEditor ==
  /\ currentView' = "home"
  /\ uploadedImage' = NULL
  /\ prompt' = ""
  /\ currentVariant' = 0
  /\ currentVariantRef' = 0
  /\ generatedVariants' = <<>>
  /\ promptHistory' = <<>>
  /\ editId' = NULL
  /\ processingStatus' = NullStatus
  /\ currentEditUuid' = NULL
  /\ isProcessing' = FALSE
  /\ isSubmittingRef' = FALSE
  /\ shouldPollRef' = EffectRef(NULL, FALSE)
  /\ polls' = MarkStalePolls(EffectPolls(NULL, polls))
  /\ subs' = MarkStaleSubs(subs)
  /\ clean' = FALSE
  /\ origImg' = NULL
  /\ nDone' = 0
  /\ UNCHANGED <<timers, readers, nSubs, nRejected>>

\* ------------------------------------------- handleFileUpload / handleDrop
\* Reachable from the home view only (the drop zone and the file input live there).
HandleFileUpload(file) ==
  /\ currentView = "home"
  /\ readers' = readers \cup {file}
  /\ editId' = NULL
  /\ isProcessing' = FALSE
  /\ processingStatus' = NullStatus
  /\ currentEditUuid' = NULL
  /\ isSubmittingRef' = FALSE
  /\ shouldPollRef' = EffectRef(NULL, shouldPollRef)
  /\ polls' = EffectPolls(NULL, polls)
  /\ UNCHANGED <<currentView, uploadedImage, currentVariant, currentVariantRef, prompt,
                 generatedVariants, promptHistory, subs, timers, nSubs, nRejected,
                 clean, origImg, nDone>>

\* reader.onload
ReaderOnload(img) ==
  /\ img \in readers
  /\ readers' = readers \ {img}
  /\ uploadedImage' = img
  /\ generatedVariants' = <<img>>
  /\ promptHistory' = <<>>
  /\ currentVariant' = 0
  /\ currentVariantRef' = 0
  /\ currentView' = "output"
  /\ clean' = ((\A k \in Subs : ~SubInFlight(k)) /\ (\A h \in Subs : ~PollActive(h)))
  /\ origImg' = img
  /\ nDone' = 0
  /\ UNCHANGED <<isProcessing, prompt, editId, currentEditUuid, processingStatus,
                 isSubmittingRef, shouldPollRef, subs, polls, timers, nSubs, nRejected>>

\* textarea onChange
TypePrompt(p) ==
  /\ currentView = "output"
  /\ prompt' = p
  /\ UNCHANGED <<currentView, uploadedImage, currentVariant, currentVariantRef,
                 isProcessing, generatedVariants, editId, currentEditUuid,
                 processingStatus, promptHistory, isSubmittingRef, shouldPollRef,
                 subs, polls, timers, readers, nSubs, nRejected,
                 clean, origImg, nDone>>

\* ------------------------------------------------------ handleSubmitPrompt
\* The submit button is disabled, and Enter is ignored, unless the prompt is non-blank
\* and isProcessing is false; the textarea exists in the output view only.
CanSubmit == currentView = "output" /\ prompt # "" /\ ~isProcessing

AlreadySubmitting == isSubmittingRef               \* if (isSubmittingRef.current) return;
ReturnClearingFlag ==
  /\ isSubmittingRef' = FALSE
  /\ UNCHANGED <<currentView, uploadedImage, currentVariant, currentVariantRef,
                 isProcessing, prompt, generatedVariants, editId, currentEditUuid,
                 processingStatus, promptHistory, shouldPollRef, subs, polls, timers,
                 readers, nSubs, clean, origImg, nDone>>
\* the return of that line: nothing was touched
ReturnAtOnce ==
  UNCHANGED <<session, subs, polls, timers, readers, nSubs, clean, origImg, nDone>>

IsChainEdit == currentView = "output" /\ Len(generatedVariants) > 0
SourceImageIsUpload == uploadedImage
SourceImage ==
  IF IsChainEdit THEN At(generatedVariants, currentVariant) ELSE uploadedImage
\* const parentUuid = isChainEdit ? currentEditUuid : undefined
ParentUuid == IF IsChainEdit THEN currentEditUuid ELSE NULL

\* The first fetch of the retry loop (attempt = 0).
FirstRequest(rec) == [rec EXCEPT !.phase = "request", !.attempt = 0, !.nReq = 1]

HandleSubmitPrompt ==
  /\ CanSubmit
  /\ nRejected' = nRejected + (IF isSubmittingRef THEN 1 ELSE 0)
  /\ nRejected' <= MaxRejected
  /\ IF AlreadySubmitting
     THEN ReturnAtOnce
     ELSE
       /\ nSubs < MaxSubmits
       /\ nSubs' = nSubs + 1
       /\ isSubmittingRef' = TRUE
       /\ LET k == nSubs + 1
              src == SourceImage
              rec == [NoSub EXCEPT !.isChainEdit = IsChainEdit,
                                   !.parentUuid = ParentUuid,
                                   !.image = src,
                                   !.lenBefore = Len(generatedVariants),
                                   !.idxBefore = currentVariant]
          IN IF src = NULL
             THEN \* if (!prompt.trim() || !sourceImage) return;
               /\ subs' = [subs EXCEPT ![k] = Ended("returnedEarly")]
               /\ clean' = FALSE
               /\ UNCHANGED <<currentView, uploadedImage, currentVariant, currentVariantRef,
                              isProcessing, prompt, generatedVariants, editId,
                              currentEditUuid, processingStatus, promptHistory,
                              shouldPollRef>>
             ELSE
               /\ isProcessing' = TRUE
               /\ processingStatus' = InitStatus
               /\ IF IsChainEdit
                  THEN /\ generatedVariants' = Append(generatedVariants, src)
                       /\ promptHistory' = SetSlot(promptHistory, currentVariant, prompt)
                       /\ currentVariant' = Len(generatedVariants)
                       /\ currentVariantRef' = Len(generatedVariants)
                       /\ currentView' = currentView
                  ELSE /\ generatedVariants' = <<src, src>>
                       /\ promptHistory' = <<prompt>>
                       /\ currentVariant' = 1
                       /\ currentVariantRef' = 1
                       /\ currentView' = "output"
               /\ LET rec2 == [rec EXCEPT !.lenAfter = Len(generatedVariants')]
                  IN subs' = [subs EXCEPT ![k] =
                                IF IsDataUrl(src) THEN FirstRequest(rec2)
                                ELSE [rec2 EXCEPT !.phase = "encoding"]]
               /\ clean' = clean
               /\ UNCHANGED <<uploadedImage, prompt, editId, currentEditUuid, shouldPollRef>>
       /\ UNCHANGED <<polls, timers, readers, origImg, nDone>>

\* ensureDataUrl of an image that is not a data: URL: the fetch and the FileReader
\* either produce the payload or throw.
EncodeDone(k, ok) ==
  /\ subs[k].phase = "encoding"
  /\ IF ok
     THEN /\ subs' = [subs EXCEPT ![k] = FirstRequest(@)]
          /\ UNCHANGED <<isProcessing, isSubmittingRef, clean>>
     ELSE /\ subs' = [subs EXCEPT ![k] = Ended("encodeFailed")]
          /\ isProcessing' = FALSE
          /\ isSubmittingRef' = FALSE
          /\ clean' = FALSE
  /\ UNCHANGED <<currentView, uploadedImage, currentVariant, currentVariantRef, prompt,
                 generatedVariants, editId, currentEditUuid, processingStatus,
                 promptHistory, shouldPollRef, polls, timers, readers, nSubs, nRejected, origImg, nDone>>

\* ---------------------------------------------------------- parseRetryAfter
\* A retry-after header: absent, a number of seconds, an HTTP date (val is
\* Date.parse(header) - Date.now() in ms), or text that is neither.
Headers ==
  { [kind |-> "none", val |-> 0], [kind |-> "seconds", val |-> 0],
    [kind |-> "seconds", val |-> 2], [kind |-> "date", val |-> 0 - 1000],
    [kind |-> "date", val |-> 2000], [kind |-> "garbage", val |-> 0] }

\* What the header asks for, in ms; NoHint when it is absent or not a hint.
NoHint == 0 - 1
Hint(h) ==
  CASE h.kind = "seconds" -> h.val * 1000
    [] h.kind = "date" -> Max(0, h.val)
    [] OTHER -> NoHint

ParseRetryAfter(h) ==
  CASE h.kind = "none" -> 0
    [] h.kind = "seconds" -> h.val * 1000
    [] h.kind = "date" -> Max(0, h.val)
    [] OTHER -> 0

\* parseRetryAfter(...) || (1500 * Math.pow(2, attempt))
RetryAfterMs(h, attempt) ==
  IF ParseRetryAfter(h) # 0 THEN ParseRetryAfter(h) ELSE BackoffBaseMs * Pow2(attempt)

\* if (!response || !response.ok) { ... }: detail is errorData.detail ("" when the body
\* has none or cannot be parsed).
UploadFailed(k, detail) ==
  /\ processingStatus' = FailedStatus(IF detail # "" THEN detail ELSE UploadFallbackMsg)
  /\ IF subs[k].isChainEdit
     THEN /\ generatedVariants' = Slice(generatedVariants)
          /\ currentVariant' = Max(0, Len(Slice(generatedVariants)) - 1)
          /\ currentVariantRef' = Max(0, Len(Slice(generatedVariants)) - 1)
     ELSE UNCHANGED <<generatedVariants, currentVariant, currentVariantRef>>
  /\ currentView' = "output"
  /\ isProcessing' = FALSE
  /\ isSubmittingRef' = FALSE
  /\ timers' = [timers EXCEPT ![UploadErrorMs] = @ + 1]
  /\ clean' = FALSE
  /\ UNCHANGED <<uploadedImage, prompt, editId, currentEditUuid, promptHistory,
                 shouldPollRef, polls, readers, nSubs, nRejected, origImg, nDone>>

Details == {"", "unsupported image"}

\* The response of the POST /edit-image/ fetch.
SubmitThrottled(k, h) ==       \* response.status === 429
  /\ subs[k].phase = "request"
  /\ subs' = [subs EXCEPT ![k].phase = "waiting", ![k].hint = Hint(h),
                          ![k].waitMs = RetryAfterMs(h, subs[k].attempt)]
  /\ UNCHANGED <<session, polls, timers, readers, nSubs, nRejected,
                 clean, origImg, nDone>>

\* wait(retryAfterMs) is over: attempt += 1; continue
LoopAgainOnceMore(attempt) == attempt <= MaxAttempts
LoopAgain(attempt) == attempt < MaxAttempts                   \* while (attempt < 3)

RetryWaitDone(k, detail) ==
  /\ subs[k].phase = "waiting"
  /\ IF LoopAgain(subs[k].attempt + 1)
     THEN /\ detail = ""
          /\ subs' = [subs EXCEPT ![k].phase = "request", ![k].attempt = @ + 1,
                                  ![k].nReq = @ + 1, ![k].waitMs = 0,
                                  ![k].hint = 0]
          /\ UNCHANGED <<session, polls, timers, readers, nSubs, nRejected,
                         clean, origImg, nDone>>
     ELSE /\ subs' = [subs EXCEPT ![k] = EndedInUploadError(@)]
          /\ UploadFailed(k, detail)

SubmitRejectedByServer(k, detail) ==    \* a response that is neither 429 nor ok
  /\ subs[k].phase = "request"
  /\ subs' = [subs EXCEPT ![k] = EndedInUploadError(@)]
  /\ UploadFailed(k, detail)

SubmitFetchThrows(k) ==        \* fetch rejects: the exception leaves handleSubmitPrompt
  /\ subs[k].phase = "request"
  /\ subs' = [subs EXCEPT ![k] = Ended("threw")]
  /\ clean' = FALSE
  /\ UNCHANGED <<session, polls, timers, readers, nSubs, nRejected,
                 origImg, nDone>>

SubmitOk(k) ==                 \* setEditId(data.edit_id); isSubmittingRef.current = false
  /\ subs[k].phase = "request"
  /\ subs' = [subs EXCEPT ![k] = Ended("handedOff")]
  /\ editId' = k
  /\ isSubmittingRef' = FALSE
  /\ shouldPollRef' = EffectRef(k, shouldPollRef)
  /\ polls' = EffectPolls(k, [polls EXCEPT ![k] =
                   [NoPoll EXCEPT !.isChainEdit = subs[k].isChainEdit,
                                  !.lenBefore = subs[k].lenBefore,
                                  !.idxBefore = subs[k].idxBefore,
                                  !.lenAfter = subs[k].lenAfter]])
  /\ UNCHANGED <<currentView, uploadedImage, currentVariant, currentVariantRef,
                 isProcessing, prompt, generatedVariants, currentEditUuid,
                 processingStatus, promptHistory, timers, readers, nSubs, nRejected, clean, origImg, nDone>>

\* The status-clearing timeout armed by a failed edit fires.
ClearTimerFires(d) ==
  /\ timers[d] > 0
  /\ timers' = [timers EXCEPT ![d] = @ - 1]
  /\ processingStatus' = NullStatus
  /\ UNCHANGED <<currentView, uploadedImage, currentVariant, currentVariantRef,
                 isProcessing, prompt, generatedVariants, editId, currentEditUuid,
                 promptHistory, isSubmittingRef, shouldPollRef, subs, polls, readers,
                 nSubs, nRejected, clean, origImg, nDone>>

\* ------------------------------------------------------------------- poll
\* The body of GET /edit/{editId}: status, is_complete, is_error, whether
\* edited_image_url is present, and message ("" when absent).
PollData ==
  { [status |-> "processing", is_complete |-> FALSE, is_error |-> FALSE, url |-> FALSE,
     message |-> ""],
    [status |-> "processing", is_complete |-> TRUE, is_error |-> FALSE, url |-> FALSE,
     message |-> ""],
    [status |-> "completed", is_complete |-> TRUE, is_error |-> FALSE, url |-> TRUE,
     message |-> ""],
    [status |-> "failed", is_complete |-> FALSE, is_error |-> TRUE, url |-> FALSE,
     message |-> "unsupported prompt"],
    [status |-> "failed", is_complete |-> FALSE, is_error |-> TRUE, url |-> FALSE,
     message |-> ""] }

PolledStatus(d) ==
  [status |-> d.status,
   message |-> IF d.message # "" THEN d.message ELSE PollFallbackMsg,
   is_error |-> d.is_error]

\* if (!shouldPollRef.current) return;  (before the response is acted upon)
DropResponse == ~shouldPollRef

PollCatchLeavesProcessing ==
  /\ isProcessing' = isProcessing
  /\ processingStatus' = NullStatus
  /\ editId' = NULL
\* setIsProcessing(false); setProcessingStatus(null); setEditId(null)
PollCatch ==
  /\ isProcessing' = FALSE
  /\ processingStatus' = NullStatus
  /\ editId' = NULL
\* The fetch of poll() throws, or the response is not ok: the catch block.
PollError(h) ==
  /\ polls[h].phase = "request"
  /\ PollCatch
  /\ shouldPollRef' = EffectRef(NULL, FALSE)
  /\ polls' = EffectPolls(NULL, [polls EXCEPT ![h] = PollEnded("error")])
  /\ clean' = FALSE
  /\ UNCHANGED <<currentView, uploadedImage, currentVariant, currentVariantRef, prompt,
                 generatedVariants, currentEditUuid, promptHistory, isSubmittingRef,
                 subs, timers, readers, nSubs, nRejected, origImg, nDone>>

\* An ok response with body d, whose edited_image_url (when d.url) is url.
PollResponseWith(h, d, url) ==
  /\ polls[h].phase = "request"
  /\ IF DropResponse
     THEN /\ polls' = [polls EXCEPT ![h] = PollEnded("dropped")]
          /\ UNCHANGED <<session, timers, clean>>
     ELSE IF d.is_complete /\ ~d.is_error /\ d.url
     THEN \* const img = new Image(); img.onload = ...; img.src = newUrl
          /\ processingStatus' = PolledStatus(d)
          /\ polls' = [polls EXCEPT ![h].phase = "preload", ![h].url = url]
          /\ UNCHANGED <<currentView, uploadedImage, currentVariant, currentVariantRef,
                         isProcessing, prompt, generatedVariants, editId,
                         currentEditUuid, promptHistory, isSubmittingRef, shouldPollRef,
                         timers, clean>>
     ELSE IF d.is_error \/ d.status = "failed"
     THEN /\ isProcessing' = FALSE
          /\ currentView' = "output"
          /\ editId' = NULL
          /\ shouldPollRef' = EffectRef(NULL, FALSE)
          /\ polls' = EffectPolls(NULL, [polls EXCEPT ![h] = PollEnded("failed")])
          /\ processingStatus' =
               FailedStatus(IF d.message # "" THEN d.message ELSE EditFallbackMsg)
          /\ generatedVariants' = Slice(generatedVariants)
          /\ currentVariant' = Max(0, Len(Slice(generatedVariants)) - 1)
          /\ currentVariantRef' = Max(0, Len(Slice(generatedVariants)) - 1)
          /\ timers' = [timers EXCEPT ![EditErrorMs] = @ + 1]
          /\ clean' = FALSE
          /\ UNCHANGED <<uploadedImage, prompt, currentEditUuid, promptHistory,
                         isSubmittingRef>>
     ELSE \* if (shouldPollRef.current) timeoutId = setTimeout(poll, 2000)
          /\ processingStatus' = PolledStatus(d)
          /\ polls' = [polls EXCEPT ![h] = Reschedule(@)]
          /\ UNCHANGED <<currentView, uploadedImage, currentVariant, currentVariantRef,
                         isProcessing, prompt, generatedVariants, editId,
                         currentEditUuid, promptHistory, isSubmittingRef, shouldPollRef,
                         timers, clean>>
  /\ UNCHANGED <<subs, readers, nSubs, nRejected, origImg, nDone>>

\* The server answers the poll of edit h.
PollResponse(h, d) == PollResponseWith(h, d, ResultUrl(h))

\* The 2-second timeout fires: poll() again.
\* if (!shouldPollRef.current || !editId) return;  (editId is the closure's handle)
TickFires(h) ==
  /\ polls[h].phase = "tick"
  /\ polls' = [polls EXCEPT ![h] =
                 IF ~shouldPollRef THEN PollEnded("stopped")
                 ELSE [@ EXCEPT !.phase = "request", !.delay = 0]]
  /\ UNCHANGED <<session, subs, timers, readers, nSubs, nRejected,
                 clean, origImg, nDone>>

\* img.onload of the preloaded result
ImgOnload(h) ==
  /\ polls[h].phase = "preload"
  /\ generatedVariants' = ReplaceLast(generatedVariants, polls[h].url)
  /\ currentEditUuid' = h
  /\ isProcessing' = FALSE
  /\ editId' = NULL
  /\ uploadedImage' = polls[h].url
  /\ processingStatus' = NullStatus
  /\ prompt' = ""
  /\ shouldPollRef' = EffectRef(NULL, FALSE)
  /\ polls' = EffectPolls(NULL, [polls EXCEPT ![h] = PollEnded("completed")])
  /\ nDone' = nDone + 1
  /\ UNCHANGED <<currentView, currentVariant, currentVariantRef, promptHistory,
                 isSubmittingRef, subs, timers, readers, nSubs, nRejected,
                 clean, origImg>>

\* The result image fails to load: no handler is installed for that.
ImgOnerror(h) ==
  /\ polls[h].phase = "preload"
  /\ polls' = [polls EXCEPT ![h] = PollEnded("loadError")]
  /\ clean' = FALSE
  /\ UNCHANGED <<session, subs, timers, readers, nSubs, nRejected,
                 origImg, nDone>>

\* ------------------------------------------------------------- navigation
\* The arrows, the swipe and the arrow keys exist when the chain has several entries.
CanNavigate == currentView = "output" /\ Len(generatedVariants) > 1

NextIndexNoWrap(i, n) == i + 1
NextIndex(i, n) == (i + 1) % n
PrevIndex(i, n) == (i - 1 + n) % n

GoToStopsPolling(idx) ==
  /\ currentVariantRef' = idx
  /\ currentVariant' = idx
  /\ prompt' = PromptAt(promptHistory, idx)
  /\ shouldPollRef' = FALSE
  /\ UNCHANGED <<currentView, uploadedImage, isProcessing, generatedVariants, editId,
                 currentEditUuid, processingStatus, promptHistory, isSubmittingRef,
                 subs, polls, timers, readers, nSubs, nRejected, clean, origImg, nDone>>
GoTo(idx) ==
  /\ currentVariantRef' = idx
  /\ currentVariant' = idx
  /\ prompt' = PromptAt(promptHistory, idx)
  /\ UNCHANGED <<currentView, uploadedImage, isProcessing, generatedVariants, editId,
                 currentEditUuid, processingStatus, promptHistory, isSubmittingRef,
                 shouldPollRef, subs, polls, timers, readers, nSubs, nRejected, clean, origImg, nDone>>

NextVariant == CanNavigate /\ GoTo(NextIndex(currentVariantRef, Len(generatedVariants)))
PrevVariant == CanNavigate /\ GoTo(PrevIndex(currentVariantRef, Len(generatedVariants)))
\* thumbnail onClick
SelectThumbnail(idx) ==
  /\ currentView = "output"
  /\ idx \in 0..(Len(generatedVariants) - 1)
  /\ GoTo(idx)

\* ------------------------------------------------------------- mock API
mock == <<processingJobs, completionTimers, jobOf, issued, orphanTimers, reported, lastFetch>>
\* The mock API is not in use.
Unmocked == UNCHANGED mock
\* The editor does nothing.
EditorIdle ==
  UNCHANGED <<session, subs, polls, timers, readers, nSubs, nRejected, clean, origImg,
              nDone, lastNavigationTime, lastStepTime>>

RECURSIVE Total(_, _)
Total(f, S) == IF S = {} THEN 0 ELSE LET x == CHOOSE y \in S : TRUE IN f[x] + Total(f, S \ {x})

\* startMockProcessing: processingJobs.set(editId, {...}); setTimeout(..., processingTime)
StartMockProcessing(id, r) ==
  /\ processingJobs' = (id :> NewJob(r)) @@ processingJobs
  /\ completionTimers' = [completionTimers EXCEPT ![id] = @ + 1]

\* mockEditImage: the edit id is made of the time and of a random value (rId); the
\* result image is drawn with another random value (rImg).
MockEditImage(rId, rImg) ==
  /\ StartMockProcessing(MockId(now, rId), rImg)
  /\ issued' = [issued EXCEPT ![MockId(now, rId)] = @ + 1]
  /\ UNCHANGED orphanTimers
MockEditImageBody(rId) ==
  [edit_id |-> MockId(now, rId), status |-> "processing",
   message |-> "Mock processing started"]

\* mockEditStatus: the body returned, and the job table afterwards.
MockEditStatusBody(id, r) ==
  IF id \notin DOMAIN processingJobs THEN JobNotFound
  ELSE IF processingJobs[id].isComplete THEN CompletedBody(processingJobs[id])
  ELSE ProcessingBody(Advance(processingJobs[id], r))
MockEditStatus(id, r) ==
  /\ processingJobs' =
       IF id \in DOMAIN processingJobs /\ ~processingJobs[id].isComplete
       THEN [processingJobs EXCEPT ![id] = Advance(@, r)]
       ELSE processingJobs
  /\ UNCHANGED <<completionTimers, issued, orphanTimers>>

\* The timeout of id that fires is one set before the last cleanupJob(id) (o = 1) or one
\* set after it (o = 0): their delays are random, so either can be first.
FiresOrphan(id, o) ==
  /\ o <= orphanTimers[id]
  /\ 1 - o <= completionTimers[id] - orphanTimers[id]
  /\ orphanTimers' = [orphanTimers EXCEPT ![id] = @ - o]
CompletionTimerLeavesJob(id) ==
  /\ completionTimers[id] > 0
  /\ completionTimers' = [completionTimers EXCEPT ![id] = @ - 1]
  /\ \E o \in {0, 1} : FiresOrphan(id, o)
  /\ UNCHANGED <<processingJobs, issued>>
\* The timeout of startMockProcessing fires.
CompletionTimerFires(id) ==
  /\ completionTimers[id] > 0
  /\ completionTimers' = [completionTimers EXCEPT ![id] = @ - 1]
  /\ processingJobs' =
       IF id \in DOMAIN processingJobs
       THEN [processingJobs EXCEPT ![id].progress = FullProgress, ![id].isComplete = TRUE]
       ELSE processingJobs
  /\ \E o \in {0, 1} : FiresOrphan(id, o)
  /\ UNCHANGED issued

CleanupJobClearsTable(id) ==
  /\ processingJobs' = <<>>
  /\ orphanTimers' = [orphanTimers EXCEPT ![id] = completionTimers[id]]
  /\ UNCHANGED <<completionTimers, issued>>
\* processingJobs.delete(editId)
CleanupJob(id) ==
  /\ processingJobs' = [e \in DOMAIN processingJobs \ {id} |-> processingJobs[e]]
  /\ orphanTimers' = [orphanTimers EXCEPT ![id] = completionTimers[id]]
  /\ UNCHANGED <<completionTimers, issued>>

ShouldUseMockAPIUnlessDisabled(env) == env # "false"
\* shouldUseMockAPI (window exists wherever createMockFetch has run)
ShouldUseMockAPI(env) == env = "true"
Intercepts(env, url) ==
  ShouldUseMockAPI(env) /\ (Includes(url, "edit-image") \/ Includes(url, "edit"))

\* handleMockAPI: which endpoint the request reaches (request bodies are well-formed
\* JSON, so the catch block is not entered).
IsEditImageCall(url, method) == Includes(url, "edit-image") /\ method = "POST"
IsEditStatusCall(url, method) ==
  /\ ~IsEditImageCall(url, method)
  /\ Includes(url, "edit") /\ Len(url.dirs) + 1 > 2
  /\ url.last # NULL
IsNoEndpoint(url, method) == ~IsEditImageCall(url, method) /\ ~IsEditStatusCall(url, method)
\* The values of Math.random() a call can see: none is drawn when used is false.
RandomsDrawn(used) == IF used THEN Randoms ELSE {0}
HandleMockAPI(url, method, r1, r2) ==
  IF IsEditImageCall(url, method) THEN MockEditImage(r1, r2)
  ELSE IF IsEditStatusCall(url, method) THEN MockEditStatus(url.last, r1)
  ELSE UNCHANGED <<processingJobs, completionTimers, issued, orphanTimers>>
MockReply(url, method, r1) ==
  IF IsEditImageCall(url, method) THEN [code |-> 200, body |-> MockEditImageBody(r1)]
  ELSE IF IsEditStatusCall(url, method)
  THEN [code |-> 200, body |-> MockEditStatusBody(url.last, r1)]
  ELSE [code |-> 400, body |-> [error |-> "Mock endpoint not found"]]

\* History of what mockEditStatus has returned for id.
Report(old, body) ==
  [progress |-> IF "progress_percent" \in DOMAIN body
                THEN Max(old.progress, body.progress_percent) ELSE old.progress,
   completed |-> old.completed \/ body.status = "completed",
   url |-> IF old.url = NULL /\ body.status = "completed"
           THEN body.edited_image_url ELSE old.url]

\* A call of the function createMockFetch returns, made by any caller.
MockFetch(env, url, method, r1, r2) ==
  /\ IsEditImageCall(url, method) /\ Intercepts(env, url) => Total(issued, MockIds) < MaxJobs
  /\ IF Intercepts(env, url)
     THEN /\ HandleMockAPI(url, method, r1, r2)
          /\ lastFetch' = [env |-> env, url |-> url, method |-> method, via |-> "mock",
                           code |-> MockReply(url, method, r1).code]
     ELSE \* return originalFetch(input, init)
          /\ lastFetch' = [env |-> env, url |-> url, method |-> method, via |-> "original",
                           code |-> NULL]
          /\ UNCHANGED <<processingJobs, completionTimers, issued, orphanTimers>>
  /\ UNCHANGED <<jobOf, reported, now>>
  /\ EditorIdle

\* ------------------------------------------------------------- time and the arrow keys
\* The keydown effect (552-581) depends on these values: when one of them changes
\* the listener is registered again and its lastNavigationTime starts from 0.
ListenerDeps == <<currentView, Len(generatedVariants), isProcessing>>
KeyListener ==
  lastNavigationTime' = IF ListenerDeps' = ListenerDeps THEN lastNavigationTime ELSE 0

\* History: the time of the last step that changed the current index.
StepTaken == lastStepTime' = IF currentVariant' # currentVariant THEN now ELSE lastStepTime

\* A handler other than navigation runs at the present time.
Elsewhere == now' = now /\ lastStepTime' = lastStepTime /\ KeyListener
\* An arrow button, a swipe or a thumbnail: nextVariant, prevVariant or
\* setCurrentVariant called directly.
Clicked == now' = now /\ StepTaken /\ KeyListener
\* Time is not observed.
Untimed == UNCHANGED <<now, lastNavigationTime, lastStepTime>>

Keys == {"ArrowLeft", "ArrowRight", "a"}

HandleKeyDown(key, onTextarea) ==
  /\ now' = now
  /\ IF /\ currentView = "output"
        /\ ~onTextarea
        /\ Len(generatedVariants) > 1
        /\ ~(now - lastNavigationTime < navigationThrottle)
        /\ key \in {"ArrowLeft", "ArrowRight"}
     THEN /\ lastNavigationTime' = now
          /\ IF key = "ArrowLeft" THEN PrevVariant ELSE NextVariant
          /\ StepTaken
     ELSE UNCHANGED <<lastNavigationTime, lastStepTime, session, subs, polls, timers,
                      readers, nSubs, nRejected, clean, origImg, nDone>>

TimePasses ==
  /\ now < Epoch + MaxTicks * TickMs
  /\ now' = now + TickMs
  /\ UNCHANGED <<lastNavigationTime, lastStepTime, session, subs, polls, timers,
                 readers, nSubs, nRejected, clean, origImg, nDone>>

Next ==
  \/ ResetEditor /\ Untimed /\ Unmocked
  \/ \E file \in UploadImgs : HandleFileUpload(file) /\ Untimed /\ Unmocked
  \/ \E img \in UploadImgs : ReaderOnload(img) /\ Untimed /\ Unmocked
  \/ \E p \in Prompts \cup {""} : TypePrompt(p) /\ Untimed /\ Unmocked
  \/ HandleSubmitPrompt /\ Untimed /\ Unmocked
  \/ \E k \in Subs, ok \in BOOLEAN : EncodeDone(k, ok) /\ Untimed /\ Unmocked
  \/ \E k \in Subs, h \in Headers : SubmitThrottled(k, h) /\ Untimed /\ Unmocked
  \/ \E k \in Subs, d \in Details : RetryWaitDone(k, d) /\ Untimed /\ Unmocked
  \/ \E k \in Subs, d \in Details : SubmitRejectedByServer(k, d) /\ Untimed /\ Unmocked
  \/ \E k \in Subs : SubmitFetchThrows(k) /\ Untimed /\ Unmocked
  \/ \E k \in Subs : SubmitOk(k) /\ Untimed /\ Unmocked
  \/ \E d \in {EditErrorMs, UploadErrorMs} : ClearTimerFires(d) /\ Untimed /\ Unmocked
  \/ \E h \in Subs : PollError(h) /\ Untimed /\ Unmocked
  \/ \E h \in Subs, d \in PollData : PollResponse(h, d) /\ Untimed /\ Unmocked
  \/ \E h \in Subs : TickFires(h) /\ Untimed /\ Unmocked
  \/ \E h \in Subs : ImgOnload(h) /\ Untimed /\ Unmocked
  \/ \E h \in Subs : ImgOnerror(h) /\ Untimed /\ Unmocked
  \/ NextVariant /\ Untimed /\ Unmocked
  \/ PrevVariant /\ Untimed /\ Unmocked
  \/ \E idx \in 0..(Len(generatedVariants) - 1) : SelectThumbnail(idx) /\ Untimed /\ Unmocked

Spec == Init /\ [][Next]_vars
\* The load of an image that was started ends, in success or in failure.
SpecFair ==
  Spec /\ \A h \in Subs : WF_vars((ImgOnload(h) \/ ImgOnerror(h)) /\ Untimed /\ Unmocked)

\* The handlers with the clock and the arrow keys.
NextTimed ==
  \/ ResetEditor /\ Elsewhere /\ Unmocked
  \/ \E file \in UploadImgs : HandleFileUpload(file) /\ Elsewhere /\ Unmocked
  \/ \E img \in UploadImgs : ReaderOnload(img) /\ Elsewhere /\ Unmocked
  \/ \E p \in Prompts \cup {""} : TypePrompt(p) /\ Elsewhere /\ Unmocked
  \/ HandleSubmitPrompt /\ Elsewhere /\ Unmocked
  \/ \E k \in Subs, ok \in BOOLEAN : EncodeDone(k, ok) /\ Elsewhere /\ Unmocked
  \/ \E k \in Subs, h \in Headers : SubmitThrottled(k, h) /\ Elsewhere /\ Unmocked
  \/ \E k \in Subs, d \in Details : RetryWaitDone(k, d) /\ Elsewhere /\ Unmocked
  \/ \E k \in Subs, d \in Details : SubmitRejectedByServer(k, d) /\ Elsewhere /\ Unmocked
  \/ \E k \in Subs : SubmitFetchThrows(k) /\ Elsewhere /\ Unmocked
  \/ \E k \in Subs : SubmitOk(k) /\ Elsewhere /\ Unmocked
  \/ \E d \in {EditErrorMs, UploadErrorMs} : ClearTimerFires(d) /\ Elsewhere /\ Unmocked
  \/ \E h \in Subs : PollError(h) /\ Elsewhere /\ Unmocked
  \/ \E h \in Subs, d \in PollData : PollResponse(h, d) /\ Elsewhere /\ Unmocked
  \/ \E h \in Subs : TickFires(h) /\ Elsewhere /\ Unmocked
  \/ \E h \in Subs : ImgOnload(h) /\ Elsewhere /\ Unmocked
  \/ \E h \in Subs : ImgOnerror(h) /\ Elsewhere /\ Unmocked
  \/ NextVariant /\ Clicked /\ Unmocked
  \/ PrevVariant /\ Clicked /\ Unmocked
  \/ \E idx \in 0..(Len(generatedVariants) - 1) : SelectThumbnail(idx) /\ Clicked /\ Unmocked
  \/ \E key \in Keys, onTextarea \in BOOLEAN : HandleKeyDown(key, onTextarea) /\ Unmocked
  \/ TimePasses /\ Unmocked

SpecTimed == Init /\ [][NextTimed]_vars

\* The mock API on its own: its methods called by any caller.
CallMockEditImage(rId, rImg) ==
  /\ Total(issued, MockIds) < MaxJobs
  /\ MockEditImage(rId, rImg)
  /\ UNCHANGED <<jobOf, reported, lastFetch, now>>
  /\ EditorIdle
CallMockEditStatus(id, r) ==
  /\ MockEditStatus(id, r)
  /\ reported' = [reported EXCEPT ![id] = Report(@, MockEditStatusBody(id, r))]
  /\ UNCHANGED <<jobOf, lastFetch, now>>
  /\ EditorIdle

CallCleanupJob(id) ==
  CleanupJob(id) /\ UNCHANGED <<jobOf, reported, lastFetch, now>> /\ EditorIdle
\* The completion timeout of a job of id runs its callback.
TimerStep(id) ==
  CompletionTimerFires(id) /\ UNCHANGED <<jobOf, reported, lastFetch, now>> /\ EditorIdle

NextMock ==
  \/ \E rId \in Randoms, rImg \in Randoms : CallMockEditImage(rId, rImg)
  \/ \E id \in MockIds, r \in Randoms : CallMockEditStatus(id, r)
  \/ \E id \in MockIds : TimerStep(id)
  \/ \E id \in MockIds : CallCleanupJob(id)
  \/ TimePasses /\ Unmocked

SpecMock == Init /\ [][NextMock]_vars
\* A timeout that was set runs its callback in the end.
SpecMockFair == SpecMock /\ \A id \in MockIds : WF_vars(TimerStep(id))

\* The function createMockFetch returns, called by any caller, and the timers it
\* starts; all calls are made within the same millisecond.
NextFetch ==
  \/ \E env \in EnvValues, url \in Urls, method \in Methods :
       \E r1 \in RandomsDrawn(Intercepts(env, url) /\ ~IsNoEndpoint(url, method)),
          r2 \in RandomsDrawn(Intercepts(env, url) /\ IsEditImageCall(url, method)) :
         MockFetch(env, url, method, r1, r2)
  \/ \E id \in MockIds : TimerStep(id)

SpecFetch == Init /\ [][NextFetch]_vars

\* ------------------------------------------------- the editor against the mock API
\* window.fetch is the mock fetch and NEXT_PUBLIC_USE_MOCK_API is 'true': POST
\* /edit-image/ and GET /edit/<id> are answered by MockAPIService, in microtasks, so
\* nothing else runs between a request and the handling of its response. The clock
\* is not advanced: the edit ids differ by their random part.
Answering ==
  \/ \E k \in Subs : subs[k].phase = "request"
  \/ \E h \in Subs : polls[h].phase = "request"

\* What poll() reads in a body of mockEditStatus.
AsPollData(body) ==
  [status |-> body.status, is_complete |-> body.is_complete, is_error |-> body.is_error,
   url |-> "edited_image_url" \in DOMAIN body, message |-> body.message]
UrlIn(body) == IF "edited_image_url" \in DOMAIN body THEN body.edited_image_url ELSE NULL

\* The submit request of submission k is answered by mockEditImage.
MockSubmitOk(k, rId, rImg) ==
  /\ SubmitOk(k)
  /\ MockEditImage(rId, rImg)
  /\ jobOf' = [jobOf EXCEPT ![k] = MockId(now, rId)]
  /\ UNCHANGED <<reported, lastFetch>>
  /\ Untimed

\* The poll request of loop h is answered by mockEditStatus.
MockPollResponse(h, r) ==
  /\ polls[h].phase = "request"
  /\ PollResponseWith(h, AsPollData(MockEditStatusBody(jobOf[h], r)),
                      UrlIn(MockEditStatusBody(jobOf[h], r)))
  /\ MockEditStatus(jobOf[h], r)
  /\ UNCHANGED <<jobOf, reported, lastFetch>>
  /\ Untimed

\* Math.random() is read by mockEditStatus for a job that is still processing.
Increments(h) ==
  RandomsDrawn(jobOf[h] \in DOMAIN processingJobs /\ ~processingJobs[jobOf[h]].isComplete)

\* Steps of the editor and of the mock API that need no user.
SimTick(h) == ~Answering /\ TickFires(h) /\ Untimed /\ Unmocked
SimImageLoads(h) == ~Answering /\ ImgOnload(h) /\ Untimed /\ Unmocked
SimImageFails(h) == ~Answering /\ ImgOnerror(h) /\ Untimed /\ Unmocked
SimTimer(id) == ~Answering /\ TimerStep(id)

NextSim ==
  \/ \E k \in Subs, rId \in Randoms, rImg \in Randoms : MockSubmitOk(k, rId, rImg)
  \/ \E h \in Subs : \E r \in Increments(h) : MockPollResponse(h, r)
  \/ ~Answering /\ ResetEditor /\ Untimed /\ Unmocked
  \/ ~Answering /\ \E file \in UploadImgs : HandleFileUpload(file) /\ Untimed /\ Unmocked
  \/ ~Answering /\ \E img \in UploadImgs : ReaderOnload(img) /\ Untimed /\ Unmocked
  \/ ~Answering /\ \E p \in Prompts \cup {""} : TypePrompt(p) /\ Untimed /\ Unmocked
  \/ ~Answering /\ HandleSubmitPrompt /\ Untimed /\ Unmocked
  \/ ~Answering /\ \E k \in Subs, ok \in BOOLEAN : EncodeDone(k, ok) /\ Untimed /\ Unmocked
  \/ ~Answering /\ \E d \in {EditErrorMs, UploadErrorMs} : ClearTimerFires(d) /\ Untimed /\ Unmocked
  \/ \E h \in Subs : SimTick(h)
  \/ \E h \in Subs : SimImageLoads(h)
  \/ \E h \in Subs : SimImageFails(h)
  \/ ~Answering /\ NextVariant /\ Untimed /\ Unmocked
  \/ ~Answering /\ PrevVariant /\ Untimed /\ Unmocked
  \/ ~Answering /\ \E idx \in 0..(Len(generatedVariants) - 1) : SelectThumbnail(idx) /\ Untimed /\ Unmocked
  \/ \E id \in MockIds : SimTimer(id)
  \/ ~Answering /\ \E id \in MockIds : CallCleanupJob(id)

SpecSim == Init /\ [][NextSim]_vars
\* A request to the mock API is answered, a timeout that was set fires, and the load
\* of an image ends, in success or in failure. The timeouts and the image events are
\* tasks of their own: the moments where a request is being answered only delay them,
\* so the fairness conditions are on the handlers, without ~Answering.
SpecSimFair ==
  /\ SpecSim
  /\ \A k \in Subs : WF_vars(\E rId \in Randoms, rImg \in Randoms : MockSubmitOk(k, rId, rImg))
  /\ \A h \in Subs : WF_vars(\E r \in Randoms : MockPollResponse(h, r))
  /\ \A h \in Subs : WF_vars(TickFires(h) /\ Untimed /\ Unmocked)
  /\ \A h \in Subs : WF_vars((ImgOnload(h) \/ ImgOnerror(h)) /\ Untimed /\ Unmocked)
  /\ \A id \in MockIds : WF_vars(TimerStep(id))

\* ================================================================ properties
\* Steps of a submission, as seen from outside.
InFlight == (\E k \in Subs : SubInFlight(k)) \/ (\E h \in Subs : PollActive(h))
UploadFails(k) == subs[k].phase \in {"request", "waiting"} /\ subs'[k].phase = "uploadFailed"
EncodeFails(k) == subs[k].phase = "encoding" /\ subs'[k].phase = "encodeFailed"
EditFails(h) == polls[h].phase = "request" /\ polls'[h].phase = "failed"
PollErrors(h) == polls[h].phase = "request" /\ polls'[h].phase = "error"
\* The chain is as the submission left it: nothing was added or removed since.
ChainAsLeftBy(rec) == rec.isChainEdit /\ Len(generatedVariants) = rec.lenAfter

\* C1 (chain invariant): after an upload followed only by submissions that complete
\* successfully, the first chain entry is the uploaded image, the entries after it are
\* one edit result per completed edit, and the chain length is 1 + the number of
\* completed edits (plus the placeholder of the edit in progress, if any).
ChainInvariant ==
  clean =>
    /\ Len(generatedVariants) = 1 + nDone + (IF InFlight THEN 1 ELSE 0)
    /\ origImg # NULL
    /\ generatedVariants[1] = origImg
    /\ \A i \in 2..(1 + nDone) : ~IsDataUrl(generatedVariants[i])
ChainInvariantWitness == clean /\ nDone = 2 /\ ~InFlight /\ Len(generatedVariants) = 3

\* C2 as stated (rollback invariant): when a submission made from an entry of the
\* chain ends in UploadFailed or EditFailed, the chain length and the current index
\* are again what they were when the submission was made.  (Stated for the first
\* failure after an upload and the successful edits that followed it.)
RollbackToSubmittedIndex ==
  [][\A k \in Subs :
       /\ UploadFails(k) /\ ChainAsLeftBy(subs[k]) /\ clean =>
            /\ Len(generatedVariants') = subs[k].lenBefore
            /\ currentVariant' = subs[k].idxBefore
       /\ EditFails(k) /\ ChainAsLeftBy(polls[k]) /\ clean =>
            /\ Len(generatedVariants') = polls[k].lenBefore
            /\ currentVariant' = polls[k].idxBefore]_vars

\* C2 amended: when a submission made from an entry of the chain ends in UploadFailed
\* or EditFailed and the chain is still as the submission left it, the chain length is
\* again what it was when the submission was made and the current index is the last
\* entry of the restored chain, whichever entry the submission was made from.
RollbackToLastEntry ==
  [][\A k \in Subs :
       /\ UploadFails(k) /\ ChainAsLeftBy(subs[k]) =>
            /\ Len(generatedVariants') = subs[k].lenBefore
            /\ currentVariant' = subs[k].lenBefore - 1
       /\ EditFails(k) /\ ChainAsLeftBy(polls[k]) =>
            /\ Len(generatedVariants') = polls[k].lenBefore
            /\ currentVariant' = polls[k].lenBefore - 1]_vars
\* A submission made from an entry that is not the last one has just ended in the
\* upload-error block.
RollbackToLastEntryWitness ==
  \E k \in Subs :
    /\ subs[k].phase = "uploadFailed"
    /\ subs[k].isChainEdit
    /\ subs[k].idxBefore < subs[k].lenBefore - 1
    /\ Len(generatedVariants) = subs[k].lenBefore
    /\ currentVariant = subs[k].lenBefore - 1

\* C3 (stale poll responses are dropped): the response to a poll request of a loop that
\* was started before resetEditor was called changes none of the chain, the current
\* index, the handle, the current edit id, the processing flag and the status, and
\* schedules no further poll of that loop.
StaleResponseDropped ==
  [][\A h \in Subs :
       polls[h].stale /\ polls[h].phase = "request" /\ polls'[h].phase # "request" =>
         /\ polls'[h].phase \notin {"tick", "preload"}
         /\ UNCHANGED <<generatedVariants, currentVariant, editId, currentEditUuid,
                        isProcessing, processingStatus>>]_vars

\* C4 (at most one in flight): a call of handleSubmitPrompt made while the submitting
\* flag is set changes nothing: chain, index, handle, status and every other session
\* field are unchanged, no request is issued, no timer is armed, and the submissions
\* and polling loops under way are where they were.
SecondSubmitIsNoOp ==
  [][nRejected' # nRejected =>
       UNCHANGED <<session, subs, polls, timers, readers, nSubs>>]_vars
SecondSubmitIsNoOpWitness ==
  /\ nRejected > 0
  /\ isSubmittingRef
  /\ \E k \in Subs : subs[k].phase = "request"

\* C5 (no zombie tick after reset): a polling loop started before resetEditor was
\* called schedules no tick after the reset, and no tick of it fires a request.
NoZombieTick ==
  [][\A h \in Subs :
       polls[h].stale =>
         /\ polls'[h].phase = "tick" => polls[h].phase = "tick"
         /\ polls[h].phase = "tick" => polls'[h].phase # "request"]_vars

\* C6 (every failure path restores): when a submission made from an entry of the chain
\* fails (encoding, non-OK response, retries exhausted, poll transport error, poll
\* reports failure) with the chain as the submission left it, the placeholder is
\* removed and the submitting flag, the processing flag and the handle are cleared.
FailureRestores ==
  [][\A k \in Subs :
       /\ (UploadFails(k) \/ EncodeFails(k)) /\ ChainAsLeftBy(subs[k]) =>
            /\ Len(generatedVariants') = subs[k].lenBefore
            /\ ~isSubmittingRef' /\ ~isProcessing' /\ editId' = NULL
       /\ (EditFails(k) \/ PollErrors(k)) /\ ChainAsLeftBy(polls[k]) =>
            /\ Len(generatedVariants') = polls[k].lenBefore
            /\ ~isSubmittingRef' /\ ~isProcessing' /\ editId' = NULL]_vars

\* C7 (submitting flag cleared on return): whenever a call of handleSubmitPrompt that
\* set the submitting flag returns (early return, encoding failure, upload failure,
\* hand-off to polling), the flag is false.
FlagClearedOnReturn ==
  [][\A k \in Subs :
       /\ subs[k].phase \in {"unused", "encoding", "request", "waiting"}
       /\ subs'[k].phase \in {"returnedEarly", "encodeFailed", "uploadFailed", "handedOff"}
       => ~isSubmittingRef']_vars

\* C8 (bounded retry): a submission issues at most 3 requests; a request after the
\* first is issued only when the wait after a throttled response is over; and the
\* wait after the third throttled response ends in UploadFailed.
BoundedRetry ==
  [][\A k \in Subs :
       /\ subs'[k].nReq <= 3
       /\ subs'[k].nReq > subs[k].nReq /\ subs[k].nReq >= 1 => subs[k].phase = "waiting"
       /\ subs[k].phase = "waiting" /\ subs[k].nReq = 3 /\ subs'[k].phase # "waiting" =>
            subs'[k].phase = "uploadFailed"]_vars
BoundedRetryWitness == \E k \in Subs : subs[k].phase = "waiting" /\ subs[k].nReq = 3

\* C9 (retry wait): the wait after a throttled response is the hint of the retry-after
\* header whenever the header carries one, and 1500 ms * 2^attempt only when it
\* carries none.
WaitIsHintWhenPresent ==
  \A k \in Subs :
    subs[k].phase = "waiting" =>
      subs[k].waitMs = IF subs[k].hint # NoHint THEN subs[k].hint
                       ELSE 1500 * Pow2(subs[k].attempt)

\* C10 (UploadFailed handling): when the submit request ends with a non-OK response and
\* the chain is as the submission left it, the placeholder is removed, the current
\* index is the last remaining entry, the status is failed with the detail text or
\* the fallback, and the 8-second timer that clears the status is armed.
UploadFailedRemovesPlaceholder ==
  [][\A k \in Subs :
       UploadFails(k) /\ Len(generatedVariants) = subs[k].lenAfter =>
         /\ Len(generatedVariants') = subs[k].lenAfter - 1
         /\ currentVariant' = Len(generatedVariants') - 1
         /\ processingStatus'.status = "failed"
         /\ processingStatus'.message # ""
         /\ timers'[8000] = timers[8000] + 1]_vars

\* C11 (EditFailed handling): when a poll response that reports failure is acted upon
\* for a submission made from an entry of the chain, with the chain as the submission
\* left it, the chain is back at its length before the submission, the handle is null,
\* polling of the handle has stopped (no request outstanding, no tick scheduled, the
\* should-poll flag false), the processing flag is false, the status is failed with the
\* server's message or the generic fallback, and the 5-second timer is armed; when a
\* 5-second timer fires the status becomes null.
EditFailedHandled ==
  [][/\ \A h \in Subs :
          EditFails(h) /\ ChainAsLeftBy(polls[h]) =>
            /\ Len(generatedVariants') = polls[h].lenBefore
            /\ currentVariant' = Len(generatedVariants') - 1
            /\ editId' = NULL
            /\ ~shouldPollRef'
            /\ ~isProcessing'
            /\ polls'[h].phase \notin {"request", "tick", "preload"}
            /\ processingStatus'.status = "failed"
            /\ processingStatus'.is_error
            /\ processingStatus'.message \in
                 {"unsupported prompt", "Image editing failed. Please try again."}
            /\ timers'[5000] = timers[5000] + 1
     /\ timers'[5000] < timers[5000] => processingStatus' = NullStatus]_vars
\* The poll of the first edit has just reported failure with a message.
EditFailedHandledWitness ==
  \E h \in Subs :
    /\ polls[h].phase = "failed"
    /\ processingStatus = FailedStatus("unsupported prompt")
    /\ timers[5000] = 1
    /\ editId = NULL
    /\ Len(generatedVariants) = 1

\* C12 (poll transport errors are fatal): when a poll request throws or its response is
\* not ok, the processing flag is false, the handle is null and the should-poll flag
\* is false afterwards, no tick is scheduled for the polled handle, and from then on
\* no poll request is issued for that handle.
PollErrorIsFatal ==
  [][\A h \in Subs :
       /\ PollErrors(h) => ~isProcessing' /\ editId' = NULL /\ ~shouldPollRef'
       /\ polls[h].phase = "error" => polls'[h].phase = "error"]_vars
\* The first poll of an edit has just failed in transport; the placeholder is still
\* in the chain.
PollErrorIsFatalWitness ==
  \E h \in Subs :
    /\ polls[h].phase = "error"
    /\ subs[h].phase = "handedOff"
    /\ ~isProcessing /\ editId = NULL /\ ~shouldPollRef
    /\ Len(generatedVariants) = 2

\* C13 (submit transport failure is reported): when the fetch of the submit request
\* rejects, with the chain as the submission left it, the submission ends with the
\* placeholder removed, the status failed and the processing and submitting flags
\* false.
FetchFails(k) == subs[k].phase = "request" /\ subs'[k].phase = "threw"
SubmitTransportFailureReported ==
  [][\A k \in Subs :
       FetchFails(k) /\ ChainAsLeftBy(subs[k]) =>
         /\ Len(generatedVariants') = subs[k].lenBefore
         /\ processingStatus'.status = "failed"
         /\ ~isProcessing'
         /\ ~isSubmittingRef']_vars

\* C14 (completion handling): the poll response that reports completion with a result
\* image leaves the chain as it is and starts the preload; when the preload finishes
\* with the chain at the length the submission left it, the last chain entry (the
\* placeholder) is replaced by the result and no other entry changes, the current edit
\* id is the polled handle, the prompt is empty, the processing flag is false and the
\* handle is null; no poll request is issued for the handle from the completion
\* response on.
Preloaded(h) == polls[h].phase = "preload" /\ polls'[h].phase = "completed"
CompletionHandled ==
  [][\A h \in Subs :
       /\ polls[h].phase = "request" /\ polls'[h].phase = "preload" =>
            generatedVariants' = generatedVariants
       /\ Preloaded(h) /\ Len(generatedVariants) = polls[h].lenAfter =>
            /\ generatedVariants' =
                 [generatedVariants EXCEPT ![Len(generatedVariants)] = ResultUrl(h)]
            /\ currentEditUuid' = h
            /\ prompt' = ""
            /\ ~isProcessing'
            /\ editId' = NULL
       /\ polls[h].phase \in {"preload", "completed"} =>
            polls'[h].phase \in {"preload", "completed", "loadError"}]_vars
\* The first edit of an upload has just completed.
CompletionHandledWitness ==
  \E h \in Subs :
    /\ polls[h].phase = "completed"
    /\ generatedVariants = <<origImg, ResultUrl(h)>>
    /\ origImg # NULL
    /\ currentEditUuid = h
    /\ prompt = "" /\ ~isProcessing /\ editId = NULL

\* C15 (polling of a handle is sequential): a handle has one polling loop, which is at
\* one place at a time (request outstanding, tick scheduled, or preloading): a poll
\* request is issued only when the loop starts or when its scheduled tick fires, a tick
\* is scheduled only by the processing of the response to the outstanding request, and
\* a loop that has ended is never started again.
PollingIsSequential ==
  [][\A h \in Subs :
       /\ polls'[h].phase = "request" /\ polls[h].phase # "request" =>
            polls[h].phase \in {"none", "tick"}
       /\ polls'[h].phase = "tick" /\ polls[h].phase # "tick" =>
            polls[h].phase = "request"
       /\ polls'[h].phase = "none" => polls[h].phase = "none"
       /\ polls[h].phase = "none" /\ polls'[h].phase # "none" =>
            subs[h].phase = "request" /\ subs'[h].phase = "handedOff"]_vars
\* The handle being polled has had a response processed and its next tick scheduled.
PollingIsSequentialWitness ==
  \E h \in Subs :
    /\ polls[h].phase = "tick"
    /\ editId = h
    /\ shouldPollRef
    /\ processingStatus.status = "processing"

\* C16 (parent edit id): in a session made of an upload and the successful edits that
\* followed it, the parent_edit_uuid of a submission is null when no edit has completed
\* yet and otherwise the id of the edit that produced the last entry of the chain; every
\* request of the submission carries that same value.
EditOf(url) == url - 100
Submitted(k) == subs[k].phase = "unused" /\ subs'[k].phase \in {"encoding", "request"}
ParentIsLastCompletedEdit ==
  [][\A k \in Subs :
       /\ Submitted(k) /\ clean =>
            subs'[k].parentUuid =
              IF nDone = 0 THEN NULL
              ELSE EditOf(generatedVariants[Len(generatedVariants)])
       /\ SubInFlight(k) /\ subs'[k].phase \in {"encoding", "request", "waiting"} =>
            subs'[k].parentUuid = subs[k].parentUuid]_vars

\* C17 (reset postcondition): right after resetEditor, in whatever state it was called,
\* the chain, the prompt and the prompt history are empty, the handle and the current
\* edit id are null, the status is null, and the processing, submitting and
\* should-poll flags are false.
ResetPostcondition ==
  [][ResetEditor =>
       /\ generatedVariants' = <<>>
       /\ prompt' = ""
       /\ promptHistory' = <<>>
       /\ editId' = NULL
       /\ currentEditUuid' = NULL
       /\ processingStatus' = NullStatus
       /\ ~isProcessing'
       /\ ~isSubmittingRef'
       /\ ~shouldPollRef']_vars
\* resetEditor was called while a submit request and a poll request were outstanding.
ResetPostconditionWitness ==
  /\ currentView = "home"
  /\ generatedVariants = <<>> /\ editId = NULL /\ ~shouldPollRef /\ ~isProcessing
  /\ \E k \in Subs : subs[k].stale /\ subs[k].phase = "request"
  /\ \E h \in Subs : polls[h].stale /\ polls[h].phase = "request"

\* C18 (cyclic navigation): nextVariant takes the current index i of a chain of length
\* N to (i + 1) mod N and prevVariant takes it to (i - 1 + N) mod N; for every chain
\* length N >= 1 and index i < N the program reaches, N applications of the next
\* index (or of the previous index) to i give i again, and the previous index of the
\* next index, and the next index of the previous index, are i.
RECURSIVE NextTimes(_, _, _)
NextTimes(i, n, times) == IF times = 0 THEN i ELSE NextTimes(NextIndex(i, n), n, times - 1)
RECURSIVE PrevTimes(_, _, _)
PrevTimes(i, n, times) == IF times = 0 THEN i ELSE PrevTimes(PrevIndex(i, n), n, times - 1)
CyclicNavigation ==
  [][LET n == Len(generatedVariants)
         i == currentVariant
     IN /\ NextVariant => currentVariant' = (i + 1) % n
        /\ PrevVariant => currentVariant' = (i - 1 + n) % n
        /\ n >= 1 /\ i \in 0..(n - 1) =>
             /\ NextTimes(i, n, n) = i
             /\ PrevTimes(i, n, n) = i
             /\ PrevIndex(NextIndex(i, n), n) = i
             /\ NextIndex(PrevIndex(i, n), n) = i
             /\ NextIndex(i, n) \in 0..(n - 1)
             /\ PrevIndex(i, n) \in 0..(n - 1)]_vars
\* The first entry of a chain of three is shown while the edit that appended the
\* third is in progress: the index was moved there from the placeholder.
CyclicNavigationWitness ==
  /\ Len(generatedVariants) = 3
  /\ currentVariant = 0
  /\ isProcessing
  /\ \E k \in Subs : SubInFlight(k) /\ ~subs[k].stale /\ subs[k].lenAfter = 3

\* C19 (navigation does not interfere with an edit in flight): nextVariant, prevVariant
\* and the selection of a thumbnail, while a submission or its polling is under way,
\* leave the chain, the handle, the processing, submitting and should-poll flags, the
\* submissions and the polling loops (outstanding requests, scheduled ticks) as they
\* are; and when the result of an edit has preloaded with the chain at the length the
\* submission left it, the result replaces the last entry (the placeholder) wherever
\* the current index is, and the index stays where it is.
Navigates == NextVariant \/ PrevVariant \/ \E idx \in 0..(Len(generatedVariants) - 1) : SelectThumbnail(idx)
NavigationDoesNotInterfere ==
  [][/\ Navigates /\ InFlight =>
          UNCHANGED <<generatedVariants, editId, isProcessing, isSubmittingRef,
                      shouldPollRef, subs, polls, timers, currentEditUuid, uploadedImage>>
     /\ \A h \in Subs :
          Preloaded(h) /\ Len(generatedVariants) = polls[h].lenAfter =>
            /\ generatedVariants'[polls[h].lenAfter] = ResultUrl(h)
            /\ Len(generatedVariants') = polls[h].lenAfter
            /\ currentVariant' = currentVariant]_vars
\* The first entry is shown while the result of the edit being polled is preloading.
NavigationDoesNotInterfereWitness ==
  \E h \in Subs :
    /\ polls[h].phase = "preload"
    /\ ~polls[h].stale
    /\ editId = h /\ shouldPollRef /\ isProcessing
    /\ Len(generatedVariants) = polls[h].lenAfter
    /\ currentVariant = 0

\* C20 (navigation throttle): two navigation steps that change the current index are
\* at least 100 ms apart, whatever triggers them (an arrow key, an arrow button, a
\* swipe, a thumbnail) and whatever else happens between them.
NavigationThrottled ==
  [][Navigates /\ currentVariant' # currentVariant =>
        now - lastStepTime >= navigationThrottle]_vars

\* ------------------------------------------------- properties of the mock API
\* The body a call of mockEditStatus(id) returns carries a progress.
HasProgress(body) == "progress_percent" \in DOMAIN body

\* C21 (simulator progress monotonicity): for every edit id a call of mockEditStatus
\* never reports a progress_percent lower than an earlier call did, every reported
\* progress lies in 0..100, and once a call has returned status completed every later
\* call for that id returns completed with progress 100.
ProgressMonotone ==
  [][\A id \in MockIds, r \in Randoms :
       CallMockEditStatus(id, r) =>
         LET body == MockEditStatusBody(id, r)
         IN  /\ HasProgress(body) =>
                  /\ body.progress_percent >= reported[id].progress
                  /\ body.progress_percent \in 0..FullProgress
             /\ reported[id].completed =>
                  /\ body.status = "completed"
                  /\ HasProgress(body) /\ body.progress_percent = FullProgress]_vars

\* C22 (simulator stable result selection): the result image of a job never changes
\* once chosen, and every call of mockEditStatus that returns completed for an edit id
\* carries the edited_image_url the first such call carried.
StableResultImage ==
  [][/\ \A id \in DOMAIN processingJobs \cap DOMAIN processingJobs' :
          processingJobs'[id].resultImage = processingJobs[id].resultImage
     /\ \A id \in MockIds, r \in Randoms :
          CallMockEditStatus(id, r) =>
            LET body == MockEditStatusBody(id, r)
            IN  body.status = "completed" /\ reported[id].url # NULL =>
                  body.edited_image_url = reported[id].url]_vars

\* The job of id is complete as the completion timer or the last increment leaves it.
JobDone(id) ==
  /\ id \in DOMAIN processingJobs
  /\ processingJobs[id].isComplete
  /\ processingJobs[id].progress = FullProgress

\* C24 (simulator completion): a job in the table is eventually complete with progress
\* 100 or cleaned up, whether or not it is polled; a complete job has progress 100;
\* and a completion timer or a call of mockEditStatus that finds a job complete leaves
\* it as it is: complete, progress 100, same result image.
JobsComplete ==
  /\ \A id \in MockIds :
       (id \in DOMAIN processingJobs) ~> (id \notin DOMAIN processingJobs \/ JobDone(id))
  /\ [](\A id \in DOMAIN processingJobs : processingJobs[id].isComplete => JobDone(id))
  /\ [][(\E t \in MockIds : TimerStep(t) \/ \E r \in Randoms : CallMockEditStatus(t, r)) =>
          \A id \in DOMAIN processingJobs :
            JobDone(id) => id \in DOMAIN processingJobs' /\ processingJobs'[id] = processingJobs[id]]_vars
\* A job completed by its timer before any call of mockEditStatus saw it, its
\* timer gone.
JobsCompleteWitness ==
  \E id \in MockIds :
    /\ JobDone(id) /\ completionTimers[id] = 0
    /\ issued[id] = 1 /\ reported[id] = NothingReported

\* C25 (simulator stage label): every processing status mockEditStatus returns carries
\* as processing_stage the entry of the stage list at index floor(progress / 25), one
\* of initializing, analyzing, processing, finalizing, and as message "Mock <stage>...".
StageLabelled ==
  [][\A id \in MockIds, r \in Randoms :
       CallMockEditStatus(id, r) =>
         LET body == MockEditStatusBody(id, r)
         IN  body.status = "processing" =>
               /\ body.progress_percent \div ProgressStep + 1 \in 1..Len(stages)
               /\ body.processing_stage = stages[body.progress_percent \div ProgressStep + 1]
               /\ body.message = MockMessage(body.processing_stage)]_vars

\* C26 (simulator cleanup): cleanupJob(id) removes the entry of id and leaves every
\* other entry, and every pending timer, as it was; for an id without entry it changes
\* nothing.
CleanupRemovesOnlyItsJob ==
  [][\A id \in MockIds :
       CallCleanupJob(id) =>
         /\ id \notin DOMAIN processingJobs'
         /\ DOMAIN processingJobs' = DOMAIN processingJobs \ {id}
         /\ \A e \in DOMAIN processingJobs' : processingJobs'[e] = processingJobs[e]
         /\ id \notin DOMAIN processingJobs => UNCHANGED vars]_vars
\* The job of one id was removed and the job of another id is still in the table.
CleanupRemovesOnlyItsJobWitness ==
  \E id \in DOMAIN processingJobs, e \in MockIds :
    /\ processingJobs[id].progress > 0
    /\ e \notin DOMAIN processingJobs /\ issued[e] > 0

\* C27 (handle uniqueness): mockEditImage never returns an edit id it has returned
\* before, so it never replaces the entry of an earlier job.
HandlesUnique ==
  /\ [](\A id \in MockIds : issued[id] <= 1)
  /\ [][\A rId \in Randoms, rImg \in Randoms :
          CallMockEditImage(rId, rImg) => MockId(now, rId) \notin DOMAIN processingJobs]_vars

\* ------------------------------------------------- properties of the mock fetch
\* C29 (the mock API is active only when enabled): a request is answered by the mock
\* API exactly when NEXT_PUBLIC_USE_MOCK_API is 'true' and its URL contains
\* /edit-image/ or /edit/; every other request goes to the original fetch, and such a
\* call leaves the job table and its timers alone.
MockOnlyWhenEnabled ==
  /\ [](lastFetch.via # "none" =>
          (lastFetch.via = "mock" <=>
             /\ lastFetch.env = "true"
             /\ \E i \in 2..Len(lastFetch.url.dirs) :
                  lastFetch.url.dirs[i] \in {"edit-image", "edit"}))
  /\ [](lastFetch.via = "original" <=> lastFetch.via # "none" /\ lastFetch.code = NULL)
  /\ [][lastFetch'.via = "original" /\ lastFetch' # lastFetch =>
          UNCHANGED <<processingJobs, completionTimers, issued>>]_vars
\* A status request for an existing job went to the original fetch because the
\* variable is not 'true'.
MockOnlyWhenEnabledWitness ==
  /\ lastFetch.via = "original"
  /\ lastFetch.env = "false"
  /\ lastFetch.url.last \in DOMAIN processingJobs
  /\ lastFetch.url = EditStatusUrl(lastFetch.url.last)

\* ------------------------------------- properties of the editor against the mock API
\* C23 (simulator job-not-found): mockEditStatus for an edit id without entry returns
\* a failed status (is_error true, is_complete false) and creates no entry; and the
\* editor acts on that response as on any failed poll: for a submission made from an
\* entry of the chain, with the chain as the submission left it, the placeholder is
\* removed, the handle is null, polling has stopped and the status is failed with
\* the message returned, the 5-second timer armed.
JobNotFoundHandled ==
  /\ [](\A id \in MockIds \ DOMAIN processingJobs, r \in Randoms :
          /\ MockEditStatusBody(id, r).status = "failed"
          /\ MockEditStatusBody(id, r).is_error
          /\ ~MockEditStatusBody(id, r).is_complete)
  /\ [][\A h \in Subs, r \in Randoms :
          MockPollResponse(h, r) /\ jobOf[h] \notin DOMAIN processingJobs =>
            /\ processingJobs' = processingJobs
            /\ ~DropResponse => EditFails(h)
            /\ EditFails(h) /\ ChainAsLeftBy(polls[h]) =>
                 /\ generatedVariants' = Slice(generatedVariants)
                 /\ Len(generatedVariants') = polls[h].lenBefore
                 /\ currentVariant' = Len(generatedVariants') - 1
                 /\ editId' = NULL
                 /\ ~shouldPollRef'
                 /\ ~isProcessing'
                 /\ polls'[h].phase \notin {"request", "tick", "preload"}
                 /\ processingStatus' = FailedStatus(MockEditStatusBody(jobOf[h], r).message)
                 /\ processingStatus'.message = "Mock job not found"
                 /\ timers'[EditErrorMs] = timers[EditErrorMs] + 1]_vars
\* A poll has just found that the job of its edit id was cleaned up.
JobNotFoundHandledWitness ==
  \E h \in Subs :
    /\ polls[h].phase = "failed"
    /\ jobOf[h] # NULL /\ jobOf[h] \notin DOMAIN processingJobs
    /\ processingStatus = FailedStatus("Mock job not found")
    /\ editId = NULL /\ ~isProcessing
    /\ Len(generatedVariants) = 1

\* Submission k was made from the upload, the only entry of the chain, and nothing has
\* moved the editor away from its placeholder since.
ScenarioAStarted(k) ==
  /\ \/ SubInFlight(k) /\ ~subs[k].stale
     \/ PollActive(k) /\ ~polls[k].stale
  /\ clean /\ nDone = 0
  /\ currentView = "output"
  /\ Len(generatedVariants) = 2 /\ generatedVariants[1] = origImg
  /\ currentVariant = 1
ScenarioADone(k) ==
  /\ polls[k].phase = "completed"
  /\ ~isProcessing /\ editId = NULL /\ processingStatus = NullStatus
  /\ jobOf[k] \in DOMAIN processingJobs
  /\ generatedVariants = <<origImg, processingJobs[jobOf[k]].resultImage>>
  /\ currentVariant = 1
\* A reset, a navigation step or cleanupJob has come in between.
ScenarioADisturbed(k) ==
  \/ currentView = "home"
  \/ currentVariant # 1
  \/ jobOf[k] # NULL /\ jobOf[k] \notin DOMAIN processingJobs

\* C28 (scenario A end to end): against the mock API, a prompt submitted from the
\* original image, with no navigation, reset or cleanup in between, leads to the editor
\* idle with chain = [original, R], R the result image of the job, and current index 1.
ScenarioA ==
  \A k \in Subs : ScenarioAStarted(k) ~> (ScenarioADone(k) \/ ScenarioADisturbed(k))

\* handleSubmitPrompt got past its isSubmittingRef test, with a prompt and a chain.
AcceptedSubmit ==
  /\ HandleSubmitPrompt
  /\ ~isSubmittingRef /\ prompt # ""
  /\ Len(generatedVariants) > 0

\* C30 (submit postcondition): an accepted submit from index i of a non-empty chain c
\* appends a copy of c[i] to the chain, which keeps c as its prefix, shows the new last
\* entry (index len(c)), sets the processing flag and the initial processing status.
SubmitAppendsPlaceholder ==
  [][AcceptedSubmit =>
       /\ currentVariant \in 0..(Len(generatedVariants) - 1)
       /\ Len(generatedVariants') = Len(generatedVariants) + 1
       /\ generatedVariants'[Len(generatedVariants')] = generatedVariants[currentVariant + 1]
       /\ SubSeq(generatedVariants', 1, Len(generatedVariants)) = generatedVariants
       /\ currentVariant' = Len(generatedVariants)
       /\ isProcessing'
       /\ processingStatus' = [status |-> "processing",
                               message |-> "Starting image processing...",
                               is_error |-> FALSE]]_vars
\* A submission made from the first entry of a chain of two different images is on its way.
SubmitAppendsPlaceholderWitness ==
  \E k \in Subs :
    /\ subs[k].phase \in {"encoding", "request"}
    /\ subs[k].lenBefore = 2 /\ subs[k].idxBefore = 0
    /\ Len(generatedVariants) = 3
    /\ generatedVariants[1] # generatedVariants[2]
    /\ generatedVariants[3] = generatedVariants[1]
    /\ currentVariant = 2 /\ isProcessing

\* C33 (index in bounds): whenever the output view is shown, the chain is not empty and
\* the current index is an index of the chain.
IndexInBounds ==
  currentView = "output" =>
    /\ Len(generatedVariants) > 0
    /\ currentVariant \in 0..(Len(generatedVariants) - 1)

\* C38 (flag consistency): an edit id being polled implies that isProcessing is true.
HandleImpliesProcessing == editId # NULL => isProcessing

\* C34 (a submission abandoned by reset stays abandoned): a step of a submission that
\* was outstanding when resetEditor was called installs no edit id, starts no polling
\* and leaves the chain, the index, the view and the status alone.
AbandonedStaysAbandoned ==
  [][\A k \in Subs :
       subs[k].stale /\ SubInFlight(k) /\ subs'[k] # subs[k] =>
         /\ editId' = editId
         /\ polls' = polls
         /\ generatedVariants' = generatedVariants
         /\ currentVariant' = currentVariant
         /\ currentView' = currentView
         /\ processingStatus' = processingStatus]_vars

\* An edit of the present session is being submitted or polled.
EditInFlight ==
  \E k \in Subs : \/ SubInFlight(k) /\ ~subs[k].stale
                  \/ PollActive(k) /\ ~polls[k].stale

\* C35 (an error-clear timer only clears its own error): while an edit is being
\* submitted or polled, a status-clearing timeout armed by an earlier failure does not
\* set the processing status to null.
ClearTimerSparesLaterEdit ==
  [][(\E d \in {EditErrorMs, UploadErrorMs} : ClearTimerFires(d)) /\ EditInFlight =>
       processingStatus' = processingStatus]_vars

\* C36 (parent id matches the source image): in every submit request the parent edit id
\* is absent when the image sent is the upload, and otherwise is the id of the edit whose
\* result is the image sent.
ParentMatchesImage ==
  \A k \in Subs :
    subs[k].phase \in {"request", "waiting"} =>
      IF subs[k].image \in UploadImgs
      THEN subs[k].parentUuid = NULL
      ELSE subs[k].parentUuid \in Subs /\ subs[k].image = ResultUrl(subs[k].parentUuid)

\* C37 (completion always resolves): once a poll response has reported completed (the
\* result image is being preloaded), isProcessing becomes false and editId null,
\* whether the image loads or fails to load.
CompletionResolves ==
  \A h \in Subs :
    (polls[h].phase = "preload" /\ ~polls[h].stale) ~> (~isProcessing /\ editId = NULL)

\* C31 (no polling timeout): without a reset, a processing response for the current
\* edit id always schedules the next poll 2000 ms later and keeps isProcessing and the
\* edit id, and the timeout, when it fires, always sends the next request; this for any
\* number of polls.
NoPollingTimeout ==
  [][\A h \in Subs :
       /\ (\E d \in PollData : d.status = "processing" /\ PollResponse(h, d))
            /\ editId = h /\ ~polls[h].stale =>
            /\ polls'[h].phase = "tick" /\ polls'[h].delay = PollIntervalMs
            /\ isProcessing' = isProcessing
            /\ editId' = h
       /\ TickFires(h) /\ editId = h /\ ~polls[h].stale =>
            /\ polls'[h].phase = "request"
            /\ isProcessing' = isProcessing
            /\ editId' = h]_vars
\* A poll of the current edit has been answered with a processing status and the next
\* one is scheduled.
NoPollingTimeoutWitness ==
  \E h \in Subs :
    /\ editId = h /\ ~polls[h].stale /\ isProcessing
    /\ polls[h].phase = "tick" /\ polls[h].delay = PollIntervalMs
    /\ processingStatus.status = "processing" /\ processingStatus # InitStatus

\* C32 (navigation updates the prompt): a navigation step that lands on index i sets
\* the prompt to the entry of promptHistory at i, or to "" when there is none; an
\* accepted submit from index i records its prompt at i and changes no other entry,
\* and only a submit, a reset or a new upload changes promptHistory.
NavigationShowsPrompt ==
  [][/\ Navigates =>
          prompt' = IF currentVariant' < Len(promptHistory')
                    THEN promptHistory'[currentVariant' + 1] ELSE ""
     /\ AcceptedSubmit =>
          /\ currentVariant < Len(promptHistory')
          /\ promptHistory'[currentVariant + 1] = prompt
          /\ \A j \in 1..Len(promptHistory') :
               j # currentVariant + 1 =>
                 promptHistory'[j] = IF j <= Len(promptHistory) THEN promptHistory[j] ELSE ""
     /\ promptHistory' # promptHistory =>
          \/ HandleSubmitPrompt
          \/ ResetEditor
          \/ \E img \in UploadImgs : ReaderOnload(img)]_vars
\* After an edit submitted from the first entry has completed, which clears the prompt,
\* the first entry is shown again with the prompt of that edit.
NavigationShowsPromptWitness ==
  /\ nDone = 1 /\ ~isProcessing
  /\ Len(generatedVariants) = 2 /\ currentVariant = 0
  /\ promptHistory = <<"p1">> /\ prompt = "p1"

\* C39 (simulator status consistency): a body returned by mockEditStatus with
\* is_complete true has the status completed and carries the result image of the job,
\* and a body with the status processing has is_complete false.
StatusConsistent ==
  [][\A id \in MockIds, r \in Randoms :
       CallMockEditStatus(id, r) =>
         LET body == MockEditStatusBody(id, r)
         IN /\ body.is_complete =>
                 /\ body.status = "completed"
                 /\ "edited_image_url" \in DOMAIN body
                 /\ body.edited_image_url = processingJobs[id].resultImage
            /\ body.status = "processing" => ~body.is_complete]_vars

\* C40 (simulator timer after cleanup): when a completion timeout of id fires that was
\* set before cleanupJob(id) ran, the job table is left as it is, and mockEditStatus(id)
\* returns the job-not-found status afterwards.
TimerAfterCleanup ==
  [][\A id \in MockIds :
       TimerStep(id) /\ orphanTimers'[id] < orphanTimers[id] =>
         /\ processingJobs' = processingJobs
         /\ id \notin DOMAIN processingJobs'
         /\ \A r \in Randoms : MockEditStatusBody(id, r)' = JobNotFound]_vars
====
